---------------------------- MODULE Spec2Model ----------------------------
(* DeviceNameHelperRK: the name retrieval state machine, the persisted     *)
(* record and its storage back ends, modelled from DeviceNameHelperRK.cpp  *)
(* and DeviceNameHelperRK.h.                                               *)
EXTENDS Integers, Sequences, FiniteSets, TLC

(***************************************************************************)
(* Program constants                                                       *)
(***************************************************************************)
DEVICENAMEHELPER_MAX_NAME_LEN == 31
DATA_MAGIC == 2005377778
POST_CONNECT_WAIT_MS == 2000
RESPONSE_WAIT_MS == 15000
RETRY_WAIT_MS == 5 * 60 * 1000
RECHECK_WAIT_MS == 10000

\* The millisecond counter is kept in quanta of 4 ms, which every wait of the
\* program and every time step of the model is a multiple of: the 32 bit
\* counter of millis() wraps at 2^32 ms = 2^30 quanta
Quantum == 2 ^ 2
CounterMod == 2 ^ 30

\* sizeof(DeviceNameHelperData): magic, size, flags, reserved, lastCheck, name
SizeofData == 4 + 1 + 1 + 2 + 4 + (DEVICENAMEHELPER_MAX_NAME_LEN + 1)

\* char name[DEVICENAMEHELPER_MAX_NAME_LEN + 1]
NameBufLen == DEVICENAMEHELPER_MAX_NAME_LEN + 1

(***************************************************************************)
(* Bounds of the model                                                     *)
(***************************************************************************)
\* Time.now() at construction, in seconds
TimeBase == 1000
\* how many seconds of run time are explored
MaxSeconds == 24
\* the non-zero check period tried, in seconds
CheckPeriodSecs == 10
\* how far beyond the name buffer the longest payload reaches
MaxOverLen == 2
\* how long a reset of the device takes, in milliseconds
RestartMs == 8000
\* how many seconds the runs with a retry explore
MaxLongSeconds == 330
\* how many events arrive for one request
MaxEvents == 2
\* the calls of Particle.subscribe and Particle.publish are counted up to
MaxCount == 4

(***************************************************************************)
(* C strings and the name buffer                                           *)
(***************************************************************************)
\* a string of n non-NUL characters; k selects the text
Text(n, k) == [i \in 1..n |-> 65 + ((i + k) % 7)]

\* a buffer of NameBufLen bytes holding all zeroes (memset 0)
ZeroName == [i \in 1..NameBufLen |-> 0]

\* a buffer holding the C string s, zero filled behind it
NameOf(s) == [i \in 1..NameBufLen |-> IF i <= Len(s) THEN s[i] ELSE 0]

Min(S) == CHOOSE x \in S : \A y \in S : x <= y

\* the buffer has a terminating NUL
Terminated(buf) == \E i \in 1..Len(buf) : buf[i] = 0

\* what reading the buffer as a C string yields: the characters before the
\* first NUL; an unterminated buffer is read to its end (and beyond)
CStr(buf) ==
    LET z == {i \in 1..Len(buf) : buf[i] = 0}
    IN  IF z = {} THEN buf ELSE SubSeq(buf, 1, Min(z) - 1)

\* strcpy(dst, src): the characters of src and its terminator; the rest of
\* dst is left as it was
strcpy(dst, src) ==
    [i \in 1..Len(dst) |->
        IF i <= Len(src) THEN src[i]
        ELSE IF i = Len(src) + 1 THEN 0
        ELSE dst[i]]

\* strncpy(dst, src, n): exactly n bytes are written, the characters of src
\* and, when src is shorter than n, zero padding; no terminator is added
strncpy(dst, src, n) ==
    [i \in 1..Len(dst) |->
        IF i <= n THEN (IF i <= Len(src) THEN src[i] ELSE 0)
        ELSE dst[i]]

\* dst[idx] = 0, idx counted from 0 as in the source
PutNul(dst, idx) == [dst EXCEPT ![idx + 1] = 0]

\* the handler without the terminator behind a truncated name
HandlerName_NoTerminator(name, eventData) ==
    IF Len(eventData) < DEVICENAMEHELPER_MAX_NAME_LEN
    THEN strcpy(name, eventData)
    ELSE strncpy(name, eventData, DEVICENAMEHELPER_MAX_NAME_LEN)

\* the name written by subscriptionHandler for the payload eventData
HandlerName(name, eventData) ==
    IF Len(eventData) < DEVICENAMEHELPER_MAX_NAME_LEN
    THEN strcpy(name, eventData)
    ELSE PutNul(strncpy(name, eventData, DEVICENAMEHELPER_MAX_NAME_LEN),
                DEVICENAMEHELPER_MAX_NAME_LEN)

(***************************************************************************)
(* The persisted record                                                    *)
(***************************************************************************)
Rec(m, s, f, r, t, n) ==
    [magic |-> m, size |-> s, flags |-> f, reserved |-> r, lastCheck |-> t, name |-> n]

\* memset(data, 0, sizeof(DeviceNameHelperData))
ZeroRec == Rec(0, 0, 0, 0, 0, ZeroName)

RecValid(d) == d.magic = DATA_MAGIC /\ d.size = SizeofData

\* the validation without the test of the size
ValidateData_MagicOnly(d) ==
    IF d.magic # DATA_MAGIC
    THEN [ZeroRec EXCEPT !.magic = DATA_MAGIC, !.size = SizeofData % 256]
    ELSE d

\* the validation resetting the reserved fields of a valid record
ValidateData_ClearReserved(d) ==
    IF d.magic # DATA_MAGIC \/ d.size # SizeofData
    THEN [ZeroRec EXCEPT !.magic = DATA_MAGIC, !.size = SizeofData % 256]
    ELSE [d EXCEPT !.flags = 0, !.reserved = 0]

\* the validation of commonSetup
ValidateData(d) ==
    IF d.magic # DATA_MAGIC \/ d.size # SizeofData
    THEN [ZeroRec EXCEPT !.magic = DATA_MAGIC, !.size = SizeofData % 256]
    ELSE d

(***************************************************************************)
(* State                                                                   *)
(***************************************************************************)
VARIABLES
    backend,        \* which subclass the singleton is
    storage,        \* the medium: EEPROM window, retained buffer or file content
    data,           \* the record data points to (before setup: the member's memory)
    setupDone,      \* setup() has returned
    checkPeriod,    \* seconds, 0 = never check again
    nameCallback,   \* TRUE when a callback is registered
    stateHandler, stateTime, hasSubscribed, gotResponse, forceCheck,
    millis,         \* millis(), the 32 bit millisecond counter, in quanta
    uptime,         \* milliseconds since construction, not wrapped
    connected,      \* Particle.connected()
    timeValid,      \* Time.isValid()
    registered,     \* the cloud holds a subscription for the handler
    loaded,         \* the record as setup() found it, before validation
    ran,            \* the last operation of the helper: setup, the state handler
                    \* loop() ran, checkName, subscriptionHandler, ...
    effects,        \* the calls that operation made, in order
    cbName,         \* the name that operation passed to the name callback
    evData,         \* the payload that operation received
    nSubscribe, nPublish,   \* calls of Particle.subscribe / Particle.publish so far
    tick,           \* the statement a call of stateWaitResponse has reached,
                    \* "none" between the calls of loop()
    tested,         \* data->name as that call found it when it tested name[0]
    copied,         \* the bytes a running subscriptionHandler has written,
                    \* -1 while none runs
    delivered       \* the events delivered to it since the publish

engineVars == <<stateHandler, stateTime, hasSubscribed, gotResponse, forceCheck>>
configVars == <<backend, checkPeriod, nameCallback, setupDone>>
envVars == <<millis, uptime, connected, timeValid>>
cloudVars == <<registered, nSubscribe, nPublish>>
history == <<ran, effects, cbName, evData>>
raceVars == <<tick, tested, copied, delivered>>
vars == <<backend, storage, data, setupDone, checkPeriod, nameCallback,
          stateHandler, stateTime, hasSubscribed, gotResponse, forceCheck,
          millis, uptime, connected, timeValid, registered,
          loaded, ran, effects, cbName, evData, nSubscribe, nPublish,
          tick, tested, copied, delivered>>

Backends == {"NoStorage", "EEPROM", "Retained", "File"}

\* std::function stateHandler: 0 or one of the state methods
NULL == "NULL"
Handlers == {"stateStart", "stateSubscribe", "stateWaitConnected", "stateWaitRequest",
             "stateWaitResponse", "stateWaitRetry", "stateWaitRecheck"}

\* one more call counted
Counted(n) == IF n < MaxCount THEN n + 1 ELSE MaxCount

\* Time.now(), seconds
TimeNow == TimeBase + (uptime \div 1000)

\* the wait tested as millis() >= stateTime + wait: no time has passed for
\* it while the counter is below the sampled value
Elapsed_NoWrap == IF millis >= stateTime THEN (millis - stateTime) * Quantum ELSE 0

\* millis() - stateTime in unsigned 32 bit arithmetic, in milliseconds
Elapsed == ((millis - stateTime) % CounterMod) * Quantum

\* hasName() and getName()
hasName == data.name[1] # 0
getName == CStr(data.name)

(***************************************************************************)
(* Inputs                                                                  *)
(***************************************************************************)
\* all 32 bytes non-zero
FullName(c) == [i \in 1..NameBufLen |-> c]

\* bytes that are no record: erased flash, memory never written
GarbageRec == Rec(DATA_MAGIC - 1, 255, 255, 65535, -1, FullName(255))

\* contents the medium (or uninitialized memory) can hold before setup():
\* garbage, a record with a short name, one with a name of the full length
\* and the reserved fields in use, one whose name has no terminator
StoredRecords ==
    { GarbageRec,
      Rec(DATA_MAGIC, SizeofData, 0, 0, TimeBase - 5, NameOf(Text(3, 0))),
      Rec(DATA_MAGIC, SizeofData, 5, 7, TimeBase + 5,
          NameOf(Text(DEVICENAMEHELPER_MAX_NAME_LEN, 1))),
      Rec(DATA_MAGIC, SizeofData, 0, 0, TimeBase - 5, FullName(66)) }

CheckPeriods == {0, CheckPeriodSecs}

\* the payloads of the name events
Payloads ==
    { <<>>, Text(4, 2), Text(DEVICENAMEHELPER_MAX_NAME_LEN + MaxOverLen, 3) }

\* The state after construction and the with...() calls. The configurations
\* are those of the examples: EEPROM with and without a name callback, the
\* other back ends with one.
Init ==
    /\ backend \in Backends
    /\ storage \in StoredRecords
    /\ data = storage
    /\ setupDone = FALSE
    /\ checkPeriod \in CheckPeriods
    /\ nameCallback \in (IF backend = "EEPROM" THEN BOOLEAN ELSE {TRUE})
    /\ stateHandler = NULL
    /\ stateTime = 0
    /\ hasSubscribed = FALSE
    /\ gotResponse = FALSE
    /\ forceCheck = FALSE
    /\ millis = 0
    /\ uptime = 0
    /\ connected = FALSE
    /\ timeValid = FALSE
    /\ registered = FALSE
    /\ loaded = storage
    /\ ran = "construct"
    /\ effects = <<>>
    /\ cbName = <<>>
    /\ evData = <<>>
    /\ nSubscribe = 0
    /\ nPublish = 0
    /\ tick = "none"
    /\ tested = ZeroName
    /\ copied = -1
    /\ delivered = 0

(***************************************************************************)
(* Storage back ends                                                       *)
(***************************************************************************)
\* every back end keeping the record in the medium itself
Alias_All(d) == d

\* DeviceNameHelperRetained: data points into the caller's retained memory,
\* so every write to the record is a write to the medium
Alias(d) == IF backend = "Retained" THEN d ELSE storage

\* a save() that can leave the file emptied when it fails
SaveResults_Torn(d) ==
    CASE backend = "EEPROM" -> {d}
      [] backend = "File" -> {d, storage, ZeroRec}
      [] backend = "Retained" -> {d}
      [] OTHER -> {storage}

\* save() of the base class for every back end
SaveResults_BaseOnly(d) == {storage}

\* what the medium can hold after save() of the record d: the base class
\* does nothing, EEPROM.put writes the record, the file is written when it
\* can be opened
SaveResults(d) ==
    CASE backend = "EEPROM" -> {d}
      [] backend = "File" -> {d, storage}
      [] backend = "Retained" -> {d}
      [] OTHER -> {storage}

\* setup() of the EEPROM class without EEPROM.get
LoadResults_NoGet ==
    CASE backend = "NoStorage" -> {data}
      [] backend = "EEPROM" -> {data}
      [] backend = "Retained" -> {storage}
      [] OTHER -> {data, ZeroRec, storage}

\* what setup() finds in the record before commonSetup validates it
LoadResults ==
    CASE backend = "NoStorage" -> {data}
      [] backend = "EEPROM" -> {storage}
      [] backend = "Retained" -> {storage}
      [] OTHER -> {data, ZeroRec, storage}

\* the calls setup() makes to find the record d: EEPROM.get; for the file
\* open alone when it fails, open, read and close when the whole record is
\* read, and a memset between them when the read is short or fails
LoadCalls(d) ==
    CASE backend = "EEPROM" -> {<<"get">>}
      [] backend = "File" ->
            (IF d = data THEN {<<"open">>} ELSE {})
                \cup (IF d = ZeroRec THEN {<<"open", "read", "memset", "close">>} ELSE {})
                \cup (IF d = storage THEN {<<"open", "read", "close">>} ELSE {})
      [] OTHER -> {<<>>}

\* commonSetup: validate the record, enter stateStart
commonSetup(d) ==
    /\ data' = ValidateData(d)
    /\ stateHandler' = "stateStart"

\* a call of the subclass's setup()
SetupCall ==
    /\ setupDone' = TRUE
    /\ \E d \in LoadResults :
            /\ loaded' = d
            /\ commonSetup(d)
            /\ \E c \in LoadCalls(d) : effects' = c
    /\ storage' = Alias(data')
    /\ ran' = "setup"
    /\ cbName' = <<>>
    /\ evData' = <<>>
    /\ UNCHANGED <<backend, checkPeriod, nameCallback, stateTime, hasSubscribed,
                   gotResponse, forceCheck, envVars, cloudVars>>
    /\ UNCHANGED raceVars

\* the application calls setup() once, from its own setup()
Setup == ~setupDone /\ SetupCall

(***************************************************************************)
(* The state handlers                                                      *)
(***************************************************************************)
\* the name callback called twice
CallbackEffects_Twice == IF nameCallback THEN <<"callback", "callback">> ELSE <<>>

\* the calls made when the name is delivered: nameCallback, if there is one
CallbackEffects == IF nameCallback THEN <<"callback">> ELSE <<>>
CallbackArg(d) == IF nameCallback THEN CStr(d.name) ELSE <<>>

\* stateStart without the call of the name callback
stateStart_NoCallback ==
    /\ stateHandler = "stateStart"
    /\ effects' = <<>>
    /\ cbName' = <<>>
    /\ IF data.name[1] # 0
       THEN /\ stateHandler' = "stateWaitRecheck"
            /\ stateTime' = millis
       ELSE /\ stateHandler' = "stateSubscribe"
            /\ stateTime' = stateTime
    /\ UNCHANGED <<data, storage, hasSubscribed, gotResponse, forceCheck, cloudVars>>

stateStart ==
    /\ stateHandler = "stateStart"
    /\ IF data.name[1] # 0
       THEN /\ effects' = CallbackEffects
            /\ cbName' = CallbackArg(data)
            /\ stateHandler' = "stateWaitRecheck"
            /\ stateTime' = millis
       ELSE /\ effects' = <<>>
            /\ cbName' = <<>>
            /\ stateHandler' = "stateSubscribe"
            /\ stateTime' = stateTime
    /\ UNCHANGED <<data, storage, hasSubscribed, gotResponse, forceCheck, cloudVars>>

\* stateSubscribe without the test of hasSubscribed
stateSubscribe_Always ==
    /\ stateHandler = "stateSubscribe"
    /\ effects' = <<"subscribe">>
    /\ registered' = TRUE
    /\ nSubscribe' = Counted(nSubscribe)
    /\ hasSubscribed' = TRUE
    /\ stateHandler' = "stateWaitConnected"
    /\ cbName' = <<>>
    /\ UNCHANGED <<data, storage, stateTime, gotResponse, forceCheck, nPublish>>

stateSubscribe ==
    /\ stateHandler = "stateSubscribe"
    /\ IF ~hasSubscribed
       THEN /\ effects' = <<"subscribe">>
            /\ registered' = TRUE
            /\ nSubscribe' = Counted(nSubscribe)
            /\ hasSubscribed' = TRUE
       ELSE /\ effects' = <<>>
            /\ UNCHANGED <<registered, nSubscribe, hasSubscribed>>
    /\ stateHandler' = "stateWaitConnected"
    /\ cbName' = <<>>
    /\ UNCHANGED <<data, storage, stateTime, gotResponse, forceCheck, nPublish>>

\* stateWaitConnected without the test of the clock
stateWaitConnected_ConnectedOnly ==
    /\ stateHandler = "stateWaitConnected"
    /\ IF ~connected
       THEN UNCHANGED <<stateHandler, stateTime>>
       ELSE /\ stateHandler' = "stateWaitRequest"
            /\ stateTime' = millis
    /\ effects' = <<>>
    /\ cbName' = <<>>
    /\ UNCHANGED <<data, storage, hasSubscribed, gotResponse, forceCheck, cloudVars>>

stateWaitConnected ==
    /\ stateHandler = "stateWaitConnected"
    /\ IF ~connected \/ ~timeValid
       THEN UNCHANGED <<stateHandler, stateTime>>
       ELSE /\ stateHandler' = "stateWaitRequest"
            /\ stateTime' = millis
    /\ effects' = <<>>
    /\ cbName' = <<>>
    /\ UNCHANGED <<data, storage, hasSubscribed, gotResponse, forceCheck, cloudVars>>

\* stateWaitRequest publishing without clearing gotResponse
stateWaitRequest_KeepResponse ==
    /\ stateHandler = "stateWaitRequest"
    /\ IF Elapsed < POST_CONNECT_WAIT_MS
       THEN /\ effects' = <<>>
            /\ UNCHANGED <<stateHandler, stateTime, nPublish>>
       ELSE /\ effects' = <<"publish">>
            /\ nPublish' = Counted(nPublish)
            /\ stateHandler' = "stateWaitResponse"
            /\ stateTime' = millis
    /\ cbName' = <<>>
    /\ UNCHANGED <<data, storage, hasSubscribed, gotResponse, forceCheck, registered,
                   nSubscribe>>

stateWaitRequest ==
    /\ stateHandler = "stateWaitRequest"
    /\ IF Elapsed < POST_CONNECT_WAIT_MS
       THEN /\ effects' = <<>>
            /\ UNCHANGED <<stateHandler, stateTime, gotResponse, nPublish>>
       ELSE /\ gotResponse' = FALSE
            /\ effects' = <<"publish">>
            /\ nPublish' = Counted(nPublish)
            /\ stateHandler' = "stateWaitResponse"
            /\ stateTime' = millis
    /\ cbName' = <<>>
    /\ UNCHANGED <<data, storage, hasSubscribed, forceCheck, registered, nSubscribe>>

\* the branch with the callback made first and the record saved before
\* lastCheck is set
WaitResponseGotName_CallbackFirst ==
    /\ data' = [data EXCEPT !.lastCheck = TimeNow]
    /\ \E s \in SaveResults(data) : storage' = s
    /\ effects' = CallbackEffects \o <<"save", "lastCheck">>
    /\ cbName' = CallbackArg(data')
    /\ stateHandler' = "stateWaitRecheck"
    /\ stateTime' = millis

\* the branch of stateWaitResponse taken for a response with a name
WaitResponseGotName ==
    /\ data' = [data EXCEPT !.lastCheck = TimeNow]
    /\ \E s \in SaveResults(data') : storage' = s
    /\ effects' = <<"lastCheck", "save">> \o CallbackEffects
    /\ cbName' = CallbackArg(data')
    /\ stateHandler' = "stateWaitRecheck"
    /\ stateTime' = millis

\* stateWaitResponse taking every response for a name
stateWaitResponse_AnyResponse ==
    /\ stateHandler = "stateWaitResponse"
    /\ IF gotResponse
       THEN WaitResponseGotName
       ELSE /\ IF Elapsed >= RESPONSE_WAIT_MS
               THEN /\ stateHandler' = "stateWaitRetry"
                    /\ stateTime' = millis
               ELSE UNCHANGED <<stateHandler, stateTime>>
            /\ effects' = <<>>
            /\ cbName' = <<>>
            /\ UNCHANGED <<data, storage>>
    /\ UNCHANGED <<hasSubscribed, gotResponse, forceCheck, cloudVars>>

stateWaitResponse ==
    /\ stateHandler = "stateWaitResponse"
    /\ IF gotResponse
       THEN IF data.name[1] # 0
            THEN WaitResponseGotName
            ELSE /\ stateHandler' = "stateWaitRetry"
                 /\ stateTime' = millis
                 /\ effects' = <<>>
                 /\ cbName' = <<>>
                 /\ UNCHANGED <<data, storage>>
       ELSE /\ IF Elapsed >= RESPONSE_WAIT_MS
               THEN /\ stateHandler' = "stateWaitRetry"
                    /\ stateTime' = millis
               ELSE UNCHANGED <<stateHandler, stateTime>>
            /\ effects' = <<>>
            /\ cbName' = <<>>
            /\ UNCHANGED <<data, storage>>
    /\ UNCHANGED <<hasSubscribed, gotResponse, forceCheck, cloudVars>>

\* stateWaitRetry starting the cycle again at stateSubscribe
stateWaitRetry_ToSubscribe ==
    /\ stateHandler = "stateWaitRetry"
    /\ IF Elapsed >= RETRY_WAIT_MS
       THEN stateHandler' = "stateSubscribe"
       ELSE UNCHANGED stateHandler
    /\ effects' = <<>>
    /\ cbName' = <<>>
    /\ UNCHANGED <<data, storage, stateTime, hasSubscribed, gotResponse, forceCheck,
                   cloudVars>>

stateWaitRetry ==
    /\ stateHandler = "stateWaitRetry"
    /\ IF Elapsed >= RETRY_WAIT_MS
       THEN stateHandler' = "stateWaitConnected"
       ELSE UNCHANGED stateHandler
    /\ effects' = <<>>
    /\ cbName' = <<>>
    /\ UNCHANGED <<data, storage, stateTime, hasSubscribed, gotResponse, forceCheck,
                   cloudVars>>

\* the test with <= for <
RecheckDue_Inclusive == timeValid /\ (data.lastCheck + checkPeriod) <= TimeNow

\* the test of stateWaitRecheck that the check period has passed
RecheckDue == timeValid /\ (data.lastCheck + checkPeriod) < TimeNow

\* stateWaitRecheck without the test for a check period of 0
stateWaitRecheck_NoDisable ==
    /\ stateHandler = "stateWaitRecheck"
    /\ IF Elapsed < RECHECK_WAIT_MS
       THEN UNCHANGED <<stateHandler, stateTime, forceCheck>>
       ELSE /\ stateTime' = millis
            /\ IF forceCheck
               THEN /\ forceCheck' = FALSE
                    /\ stateHandler' = "stateSubscribe"
               ELSE /\ forceCheck' = forceCheck
                    /\ IF RecheckDue
                       THEN stateHandler' = "stateSubscribe"
                       ELSE stateHandler' = stateHandler
    /\ effects' = <<>>
    /\ cbName' = <<>>
    /\ UNCHANGED <<data, storage, hasSubscribed, gotResponse, cloudVars>>

stateWaitRecheck ==
    /\ stateHandler = "stateWaitRecheck"
    /\ IF Elapsed < RECHECK_WAIT_MS
       THEN UNCHANGED <<stateHandler, stateTime, forceCheck>>
       ELSE /\ stateTime' = millis
            /\ IF forceCheck
               THEN /\ forceCheck' = FALSE
                    /\ stateHandler' = "stateSubscribe"
               ELSE /\ forceCheck' = forceCheck
                    /\ IF checkPeriod = 0
                       THEN stateHandler' = NULL
                       ELSE IF RecheckDue
                            THEN stateHandler' = "stateSubscribe"
                            ELSE stateHandler' = stateHandler
    /\ effects' = <<>>
    /\ cbName' = <<>>
    /\ UNCHANGED <<data, storage, hasSubscribed, gotResponse, cloudVars>>

\* loop() with no state handler
loopIdle ==
    /\ stateHandler = NULL
    /\ effects' = <<>>
    /\ cbName' = <<>>
    /\ UNCHANGED <<data, storage, engineVars, cloudVars>>

\* loop(): run the current state handler, if any
loop ==
    /\ setupDone
    /\ \/ stateStart
       \/ stateSubscribe
       \/ stateWaitConnected
       \/ stateWaitRequest
       \/ stateWaitResponse
       \/ stateWaitRetry
       \/ stateWaitRecheck
       \/ loopIdle
    /\ ran' = IF stateHandler = NULL THEN "loopIdle" ELSE stateHandler
    /\ evData' = <<>>
    /\ UNCHANGED <<configVars, envVars, loaded>>
    /\ UNCHANGED raceVars

(***************************************************************************)
(* The other operations                                                    *)
(***************************************************************************)
\* checkName that only sets the flag, also when there is no state handler
checkName_FlagOnly ==
    /\ setupDone
    /\ forceCheck' = TRUE
    /\ ran' = "checkName"
    /\ effects' = <<>>
    /\ cbName' = <<>>
    /\ evData' = <<>>
    /\ UNCHANGED <<loaded, data, storage, stateHandler, stateTime, hasSubscribed,
                   gotResponse, configVars, envVars, cloudVars>>
    /\ UNCHANGED raceVars

checkName ==
    /\ setupDone
    /\ IF stateHandler = NULL
       THEN /\ stateHandler' = "stateSubscribe"
            /\ forceCheck' = forceCheck
       ELSE /\ forceCheck' = TRUE
            /\ stateHandler' = stateHandler
    /\ ran' = "checkName"
    /\ effects' = <<>>
    /\ cbName' = <<>>
    /\ evData' = <<>>
    /\ UNCHANGED <<loaded, data, storage, stateTime, hasSubscribed, gotResponse,
                   configVars, envVars, cloudVars>>
    /\ UNCHANGED raceVars

\* a handler that takes the payload only while stateWaitResponse waits for it
subscriptionHandler_InResponseOnly(eventData) ==
    /\ registered
    /\ connected
    /\ data' = IF stateHandler = "stateWaitResponse"
               THEN [data EXCEPT !.name = HandlerName(@, eventData)]
               ELSE data
    /\ storage' = Alias(data')
    /\ gotResponse' = TRUE
    /\ ran' = "subscriptionHandler"
    /\ effects' = <<>>
    /\ cbName' = <<>>
    /\ evData' = eventData
    /\ UNCHANGED <<loaded, stateHandler, stateTime, hasSubscribed, forceCheck,
                   configVars, envVars, cloudVars>>
    /\ UNCHANGED raceVars

\* the event "particle/device/name" arrives with the payload eventData
subscriptionHandler(eventData) ==
    /\ registered
    /\ connected
    /\ data' = [data EXCEPT !.name = HandlerName(@, eventData)]
    /\ storage' = Alias(data')
    /\ gotResponse' = TRUE
    /\ ran' = "subscriptionHandler"
    /\ effects' = <<>>
    /\ cbName' = <<>>
    /\ evData' = eventData
    /\ UNCHANGED <<loaded, stateHandler, stateTime, hasSubscribed, forceCheck,
                   configVars, envVars, cloudVars>>
    /\ UNCHANGED raceVars

\* the application calls Particle.unsubscribe() and then subscriptionRemoved()
subscriptionRemoved ==
    /\ setupDone
    /\ hasSubscribed' = FALSE
    /\ registered' = FALSE
    /\ ran' = "subscriptionRemoved"
    /\ effects' = <<>>
    /\ cbName' = <<>>
    /\ evData' = <<>>
    /\ UNCHANGED <<loaded, data, storage, stateHandler, stateTime, gotResponse, forceCheck,
                   configVars, envVars, nSubscribe, nPublish>>
    /\ UNCHANGED raceVars

(***************************************************************************)
(* The environment: time, connectivity, clock                              *)
(***************************************************************************)
\* the wait the current state performs, 0 when it has none
WaitOf(h) ==
    CASE h = "stateWaitRequest" -> POST_CONNECT_WAIT_MS
      [] h = "stateWaitResponse" -> RESPONSE_WAIT_MS
      [] h = "stateWaitRetry" -> RETRY_WAIT_MS
      [] h = "stateWaitRecheck" -> RECHECK_WAIT_MS
      [] OTHER -> 0

\* time passes while a state waits, in steps of half the wait, so that loop()
\* sees the wait at its start, half way and at its end
TimeSteps == {WaitOf(stateHandler) \div 2} \ {0}

Advance(d) ==
    /\ setupDone
    /\ Elapsed < WaitOf(stateHandler)
    /\ uptime + d <= MaxSeconds * 1000
    /\ millis' = (millis + d \div Quantum) % CounterMod
    /\ uptime' = uptime + d
    /\ UNCHANGED history
    /\ UNCHANGED <<loaded, data, storage, engineVars, configVars, connected, timeValid,
                   cloudVars>>
    /\ UNCHANGED raceVars

SetConnected ==
    /\ setupDone
    /\ connected' = ~connected
    /\ UNCHANGED history
    /\ UNCHANGED <<loaded, data, storage, engineVars, configVars, millis, uptime, timeValid,
                   cloudVars>>
    /\ UNCHANGED raceVars

\* the clock is set from the cloud and stays valid
TimeSync ==
    /\ setupDone
    /\ connected
    /\ ~timeValid
    /\ timeValid' = TRUE
    /\ UNCHANGED history
    /\ UNCHANGED <<loaded, data, storage, engineVars, configVars, millis, uptime, connected,
                   cloudVars>>
    /\ UNCHANGED raceVars

\* a reset of the device: the program starts again with a new singleton,
\* whose record member is memory nothing has initialized (it can still hold
\* what the previous run left there); EEPROM, retained memory and the file
\* keep their contents and the real time clock goes on
Restart ==
    /\ setupDone
    /\ uptime + RestartMs <= MaxSeconds * 1000
    /\ uptime' = uptime + RestartMs
    /\ setupDone' = FALSE
    /\ stateHandler' = NULL
    /\ stateTime' = 0
    /\ hasSubscribed' = FALSE
    /\ gotResponse' = FALSE
    /\ forceCheck' = FALSE
    /\ millis' = 0
    /\ connected' = FALSE
    /\ timeValid' = FALSE
    /\ registered' = FALSE
    /\ nSubscribe' = 0
    /\ nPublish' = 0
    /\ storage' = storage
    /\ data' \in (IF backend = "Retained" THEN {storage} ELSE {data, GarbageRec})
    /\ loaded' = data'
    /\ ran' = "construct"
    /\ effects' = <<>>
    /\ cbName' = <<>>
    /\ evData' = <<>>
    /\ UNCHANGED <<backend, checkPeriod, nameCallback>>
    /\ UNCHANGED raceVars

Next ==
    \/ Setup
    \/ loop
    \/ checkName
    \/ \E p \in Payloads : subscriptionHandler(p)
    \/ subscriptionRemoved
    \/ \E d \in TimeSteps : Advance(d)
    \/ SetConnected
    \/ TimeSync

Spec == Init /\ [][Next]_vars

(***************************************************************************)
(* The device from its first start, with resets: the medium is zeroed or   *)
(* erased, so every name it comes to hold has been fetched                 *)
(***************************************************************************)
InitRestart ==
    /\ backend \in Backends
    /\ storage \in {ZeroRec, GarbageRec}
    /\ data = storage
    /\ loaded = storage
    /\ setupDone = FALSE
    /\ checkPeriod \in CheckPeriods
    /\ nameCallback = TRUE
    /\ stateHandler = NULL
    /\ stateTime = 0
    /\ hasSubscribed = FALSE
    /\ gotResponse = FALSE
    /\ forceCheck = FALSE
    /\ millis = 0
    /\ uptime = 0
    /\ connected = FALSE
    /\ timeValid = FALSE
    /\ registered = FALSE
    /\ ran = "construct"
    /\ effects = <<>>
    /\ cbName = <<>>
    /\ evData = <<>>
    /\ nSubscribe = 0
    /\ nPublish = 0
    /\ tick = "none"
    /\ tested = ZeroName
    /\ copied = -1
    /\ delivered = 0

NextRestart ==
    \/ Setup
    \/ loop
    \/ \E p \in Payloads : subscriptionHandler(p)
    \/ \E d \in TimeSteps : Advance(d)
    \/ SetConnected
    \/ TimeSync
    \/ Restart

SpecRestart == InitRestart /\ [][NextRestart]_vars

(***************************************************************************)
(* Long runs: from a zeroed medium, long enough for the retry wait, and    *)
(* with the helper created shortly before the counter of millis() wraps    *)
(***************************************************************************)
\* millis() when the helper is created: 0, and 1 s, 10 s and 20 s before the
\* wrap, so that each of the four waits is under way when the counter wraps
WrapStarts ==
    {0} \cup {CounterMod - (s * 1000) \div Quantum : s \in {1, 10, 20}}

InitLong ==
    /\ backend = "EEPROM"
    /\ storage = ZeroRec
    /\ data = storage
    /\ loaded = storage
    /\ setupDone = FALSE
    /\ checkPeriod = 0
    /\ nameCallback = TRUE
    /\ stateHandler = NULL
    /\ stateTime = 0
    /\ hasSubscribed = FALSE
    /\ gotResponse = FALSE
    /\ forceCheck = FALSE
    /\ millis \in WrapStarts
    /\ uptime = 0
    /\ connected = FALSE
    /\ timeValid = FALSE
    /\ registered = FALSE
    /\ ran = "construct"
    /\ effects = <<>>
    /\ cbName = <<>>
    /\ evData = <<>>
    /\ nSubscribe = 0
    /\ nPublish = 0
    /\ tick = "none"
    /\ tested = ZeroName
    /\ copied = -1
    /\ delivered = 0

\* time passes while a state waits, up to the end of the long run
AdvanceLong(d) ==
    /\ setupDone
    /\ Elapsed < WaitOf(stateHandler)
    /\ uptime + d <= MaxLongSeconds * 1000
    /\ millis' = (millis + d \div Quantum) % CounterMod
    /\ uptime' = uptime + d
    /\ UNCHANGED history
    /\ UNCHANGED <<loaded, data, storage, engineVars, configVars, connected, timeValid,
                   cloudVars>>
    /\ UNCHANGED raceVars

NextLong ==
    \/ Setup
    \/ loop
    \/ \E p \in Payloads : subscriptionHandler(p)
    \/ \E d \in TimeSteps : AdvanceLong(d)
    \/ SetConnected
    \/ TimeSync

SpecLong == InitLong /\ [][NextLong]_vars

(***************************************************************************)
(* The creation of the singleton: the instance() methods of the four       *)
(* classes share the pointer _instance; backend is the class of the object *)
(* it points to, NULL while there is none                                  *)
(***************************************************************************)
\* the name of X::instance() for the storage class X
InstanceOp(X) == "DeviceNameHelper" \o X \o "::instance"

\* X::instance(): create an object of class X if _instance is 0, return
\* _instance cast to X
Instance(X) ==
    /\ backend' = IF backend = NULL THEN X ELSE backend
    /\ effects' = IF backend = NULL THEN <<"new">> ELSE <<>>
    /\ ran' = InstanceOp(X)
    /\ cbName' = <<>>
    /\ evData' = <<>>
    /\ UNCHANGED <<loaded, data, storage, setupDone, checkPeriod, nameCallback,
                   engineVars, envVars, cloudVars>>
    /\ UNCHANGED raceVars

\* getInstance(): return _instance
getInstance ==
    /\ ran' = "getInstance"
    /\ effects' = <<>>
    /\ cbName' = <<>>
    /\ evData' = <<>>
    /\ UNCHANGED <<loaded, data, storage, configVars, engineVars, envVars, cloudVars>>
    /\ UNCHANGED raceVars

InitInstance ==
    /\ backend = NULL
    /\ storage \in StoredRecords
    /\ data = storage
    /\ loaded = storage
    /\ setupDone = FALSE
    /\ checkPeriod = 0
    /\ nameCallback = FALSE
    /\ stateHandler = NULL
    /\ stateTime = 0
    /\ hasSubscribed = FALSE
    /\ gotResponse = FALSE
    /\ forceCheck = FALSE
    /\ millis = 0
    /\ uptime = 0
    /\ connected = FALSE
    /\ timeValid = FALSE
    /\ registered = FALSE
    /\ ran = "construct"
    /\ effects = <<>>
    /\ cbName = <<>>
    /\ evData = <<>>
    /\ nSubscribe = 0
    /\ nPublish = 0
    /\ tick = "none"
    /\ tested = ZeroName
    /\ copied = -1
    /\ delivered = 0

\* setup() and loop() are called on the object once there is one
NextInstance ==
    \/ \E X \in Backends : Instance(X)
    \/ getInstance
    \/ (backend # NULL /\ Setup)
    \/ loop

SpecInstance == InitInstance /\ [][NextInstance]_vars

(***************************************************************************)
(* subscriptionHandler on its own: the helper has been set up, has          *)
(* subscribed and is connected, and events of every length around the      *)
(* size of the name buffer arrive                                          *)
(***************************************************************************)
NameLengths ==
    {0, 1, DEVICENAMEHELPER_MAX_NAME_LEN - 1, DEVICENAMEHELPER_MAX_NAME_LEN,
     DEVICENAMEHELPER_MAX_NAME_LEN + 1, DEVICENAMEHELPER_MAX_NAME_LEN + MaxOverLen}

NamePayloads == {Text(n, k) : n \in NameLengths, k \in {2, 3}}

InitName ==
    /\ backend \in Backends
    /\ loaded \in StoredRecords
    /\ data = ValidateData(loaded)
    /\ storage = data
    /\ setupDone = TRUE
    /\ checkPeriod = 0
    /\ nameCallback = TRUE
    /\ stateHandler = "stateWaitConnected"
    /\ stateTime = 0
    /\ hasSubscribed = TRUE
    /\ gotResponse = FALSE
    /\ forceCheck = FALSE
    /\ millis = 0
    /\ uptime = 0
    /\ connected = TRUE
    /\ timeValid = FALSE
    /\ registered = TRUE
    /\ ran = "stateSubscribe"
    /\ effects = <<"subscribe">>
    /\ cbName = <<>>
    /\ evData = <<>>
    /\ nSubscribe = 1
    /\ nPublish = 0
    /\ tick = "none"
    /\ tested = ZeroName
    /\ copied = -1
    /\ delivered = 0

NextName == \E p \in NamePayloads : subscriptionHandler(p)

SpecName == InitName /\ [][NextName]_vars

(***************************************************************************)
(* The validation on its own: setup() is called, any number of times, on   *)
(* every combination of field values of the record                         *)
(***************************************************************************)
RawRecords ==
    { Rec(m, s, f, r, t, n) :
        m \in {DATA_MAGIC, DATA_MAGIC - 1, 0},
        s \in {SizeofData, SizeofData - 4, 0, 255},
        f \in {0, 5},
        r \in {0, 7},
        t \in {0, TimeBase - 5},
        n \in {ZeroName, NameOf(Text(3, 0)), FullName(255)} }

InitRecord ==
    /\ backend \in Backends
    /\ storage \in RawRecords
    /\ data = storage
    /\ loaded = storage
    /\ setupDone = FALSE
    /\ checkPeriod = 0
    /\ nameCallback = TRUE
    /\ stateHandler = NULL
    /\ stateTime = 0
    /\ hasSubscribed = FALSE
    /\ gotResponse = FALSE
    /\ forceCheck = FALSE
    /\ millis = 0
    /\ uptime = 0
    /\ connected = FALSE
    /\ timeValid = FALSE
    /\ registered = FALSE
    /\ ran = "construct"
    /\ effects = <<>>
    /\ cbName = <<>>
    /\ evData = <<>>
    /\ nSubscribe = 0
    /\ nPublish = 0
    /\ tick = "none"
    /\ tested = ZeroName
    /\ copied = -1
    /\ delivered = 0

NextRecord == SetupCall

SpecRecord == InitRecord /\ [][NextRecord]_vars

(***************************************************************************)
(* The subscription handler in another context than loop(): its byte       *)
(* writes and the statements of stateWaitResponse interleave. The code     *)
(* has no lock, no atomic and no critical section around data->name and    *)
(* gotResponse. The helper has published its request and waits in          *)
(* stateWaitResponse.                                                      *)
(***************************************************************************)
\* the characters the handler copies: all of a payload strcpy takes, and
\* DEVICENAMEHELPER_MAX_NAME_LEN with strncpy
CopyLen(eventData) ==
    IF Len(eventData) < DEVICENAMEHELPER_MAX_NAME_LEN
    THEN Len(eventData)
    ELSE DEVICENAMEHELPER_MAX_NAME_LEN

\* the handler is called with the payload eventData; one call at a time
handlerEnter(eventData) ==
    /\ registered
    /\ connected
    /\ copied = -1
    /\ delivered < MaxEvents
    /\ copied' = 0
    /\ delivered' = delivered + 1
    /\ evData' = eventData
    /\ UNCHANGED <<loaded, data, storage, engineVars, configVars, envVars, cloudVars,
                   ran, effects, cbName, tick, tested>>

\* strcpy or strncpy writes the next character
handlerCopy ==
    /\ copied >= 0
    /\ copied < CopyLen(evData)
    /\ data' = [data EXCEPT !.name[copied + 1] = evData[copied + 1]]
    /\ storage' = Alias(data')
    /\ copied' = copied + 1
    /\ UNCHANGED <<loaded, engineVars, configVars, envVars, cloudVars, history, tick,
                   tested, delivered>>

\* the terminator: the last byte strcpy writes, or
\* data->name[DEVICENAMEHELPER_MAX_NAME_LEN] = 0 after strncpy
handlerTerminate ==
    /\ copied >= 0
    /\ copied = CopyLen(evData)
    /\ data' = [data EXCEPT !.name = PutNul(@, copied)]
    /\ storage' = Alias(data')
    /\ copied' = copied + 1
    /\ UNCHANGED <<loaded, engineVars, configVars, envVars, cloudVars, history, tick,
                   tested, delivered>>

\* gotResponse = true, and the handler returns
handlerReturn ==
    /\ copied = CopyLen(evData) + 1
    /\ gotResponse' = TRUE
    /\ copied' = -1
    /\ UNCHANGED <<loaded, data, storage, stateHandler, stateTime, hasSubscribed,
                   forceCheck, configVars, envVars, cloudVars, history, tick, tested,
                   delivered>>

\* loop() calls stateWaitResponse, which reads gotResponse; without a
\* response it tests the time out and returns
tickFlag ==
    /\ setupDone
    /\ stateHandler = "stateWaitResponse"
    /\ tick = "none"
    /\ IF gotResponse
       THEN /\ tick' = "name"
            /\ UNCHANGED <<stateHandler, stateTime>>
       ELSE /\ tick' = "none"
            /\ IF Elapsed >= RESPONSE_WAIT_MS
               THEN /\ stateHandler' = "stateWaitRetry"
                    /\ stateTime' = millis
               ELSE UNCHANGED <<stateHandler, stateTime>>
    /\ ran' = "stateWaitResponse"
    /\ effects' = <<>>
    /\ cbName' = <<>>
    /\ UNCHANGED <<loaded, data, storage, hasSubscribed, gotResponse, forceCheck,
                   configVars, envVars, cloudVars, evData, tested, copied, delivered>>

\* if (data->name[0])
tickName ==
    /\ tick = "name"
    /\ tested' = data.name
    /\ IF data.name[1] # 0
       THEN /\ tick' = "lastCheck"
            /\ UNCHANGED <<stateHandler, stateTime>>
       ELSE /\ tick' = "none"
            /\ stateHandler' = "stateWaitRetry"
            /\ stateTime' = millis
    /\ UNCHANGED <<loaded, data, storage, hasSubscribed, gotResponse, forceCheck,
                   configVars, envVars, cloudVars, history, copied, delivered>>

\* data->lastCheck = Time.now()
tickLastCheck ==
    /\ tick = "lastCheck"
    /\ data' = [data EXCEPT !.lastCheck = TimeNow]
    /\ storage' = Alias(data')
    /\ effects' = effects \o <<"lastCheck">>
    /\ tick' = "save"
    /\ UNCHANGED <<loaded, engineVars, configVars, envVars, cloudVars, ran, cbName,
                   evData, tested, copied, delivered>>

\* save()
tickSave ==
    /\ tick = "save"
    /\ \E s \in SaveResults(data) : storage' = s
    /\ effects' = effects \o <<"save">>
    /\ tick' = "callback"
    /\ UNCHANGED <<loaded, data, engineVars, configVars, envVars, cloudVars, ran, cbName,
                   evData, tested, copied, delivered>>

\* nameCallback(data->name), then the state change, and the call returns
tickCallback ==
    /\ tick = "callback"
    /\ effects' = effects \o CallbackEffects
    /\ cbName' = CallbackArg(data)
    /\ stateHandler' = "stateWaitRecheck"
    /\ stateTime' = millis
    /\ tick' = "none"
    /\ UNCHANGED <<loaded, data, storage, hasSubscribed, gotResponse, forceCheck,
                   configVars, envVars, cloudVars, ran, evData, tested, copied,
                   delivered>>

\* the state after the publish of the first request, on an empty record;
\* the statements run within the time of one call of loop()
InitRace ==
    /\ backend \in Backends
    /\ loaded = GarbageRec
    /\ data = ValidateData(loaded)
    /\ storage = (IF backend = "Retained" THEN data ELSE loaded)
    /\ setupDone = TRUE
    /\ checkPeriod = 0
    /\ nameCallback = TRUE
    /\ stateHandler = "stateWaitResponse"
    /\ stateTime = POST_CONNECT_WAIT_MS \div Quantum
    /\ hasSubscribed = TRUE
    /\ gotResponse = FALSE
    /\ forceCheck = FALSE
    /\ millis = POST_CONNECT_WAIT_MS \div Quantum
    /\ uptime = POST_CONNECT_WAIT_MS
    /\ connected = TRUE
    /\ timeValid = TRUE
    /\ registered = TRUE
    /\ ran = "stateWaitRequest"
    /\ effects = <<"publish">>
    /\ cbName = <<>>
    /\ evData = <<>>
    /\ nSubscribe = 1
    /\ nPublish = 1
    /\ tick = "none"
    /\ tested = ZeroName
    /\ copied = -1
    /\ delivered = 0

NextRace ==
    \/ \E p \in Payloads : handlerEnter(p)
    \/ handlerCopy
    \/ handlerTerminate
    \/ handlerReturn
    \/ tickFlag
    \/ tickName
    \/ tickLastCheck
    \/ tickSave
    \/ tickCallback

SpecRace == InitRace /\ [][NextRace]_vars

(***************************************************************************)
(* Runs without end: loop() is called for ever, time goes on, the cloud    *)
(* connects and stays connected, the clock is set, and a request           *)
(* published is answered by an event with a name, which reaches the        *)
(* handler when the subscription exists. Time is measured from the         *)
(* present: the code reads millis() - stateTime only, so the passing of    *)
(* time is the entry into the state moving back.                           *)
(***************************************************************************)
\* d milliseconds pass while a state waits
AdvanceLive(d) ==
    /\ setupDone
    /\ Elapsed < WaitOf(stateHandler)
    /\ stateTime' = (stateTime - d \div Quantum) % CounterMod
    /\ UNCHANGED history
    /\ UNCHANGED raceVars
    /\ UNCHANGED <<loaded, data, storage, stateHandler, hasSubscribed, gotResponse,
                   forceCheck, configVars, envVars, cloudVars>>

\* the cloud answers the request with the name of the device
Respond ==
    /\ stateHandler = "stateWaitResponse"
    /\ ~gotResponse
    /\ \E p \in Payloads \ {<<>>} : subscriptionHandler(p)

\* the cloud connection is made, and stays
Connect == ~connected /\ SetConnected

\* the application removes the subscriptions it has
Unsubscribe == hasSubscribed /\ subscriptionRemoved

\* an empty record, no periodic recheck
InitLive ==
    /\ Init
    /\ storage = GarbageRec
    /\ checkPeriod = 0

NextLive ==
    \/ Setup
    \/ loop
    \/ checkName
    \/ Unsubscribe
    \/ Respond
    \/ \E d \in TimeSteps : AdvanceLive(d)
    \/ Connect
    \/ TimeSync

Fairness ==
    /\ WF_vars(Setup)
    /\ WF_vars(loop)
    /\ WF_vars(\E d \in TimeSteps : AdvanceLive(d))
    /\ WF_vars(Connect)
    /\ WF_vars(TimeSync)
    /\ SF_vars(Respond)

SpecLive == InitLive /\ [][NextLive]_vars /\ Fairness

(***************************************************************************)
(* Properties                                                              *)
(***************************************************************************)
\* a step of loop() that runs the handler h
LoopRuns(h) == loop /\ stateHandler = h

\* C1: a tick of stateWaitResponse that sees the response flag and a
\* non-empty name is a successful fetch: it moves to stateWaitRecheck, and in
\* that tick lastCheck is set to Time.now(), then save() is called (EEPROM
\* and retained memory then hold the record with the new lastCheck), then
\* the name callback, if registered, is called with the name; nothing else
\* moves from stateWaitResponse to stateWaitRecheck
C1_FetchOrder ==
    [][ /\ (LoopRuns("stateWaitResponse") /\ gotResponse /\ data.name[1] # 0)
            => stateHandler' = "stateWaitRecheck"
        /\ (stateHandler = "stateWaitResponse" /\ stateHandler' = "stateWaitRecheck")
            => /\ gotResponse /\ data.name[1] # 0
               /\ data'.lastCheck = TimeNow
               /\ effects' = IF nameCallback THEN <<"lastCheck", "save", "callback">>
                                             ELSE <<"lastCheck", "save">>
               /\ backend \in {"EEPROM", "Retained"} => storage' = data'
               /\ nameCallback => cbName' = CStr(data.name) ]_vars

C1_Witness ==
    /\ ran = "stateWaitResponse"
    /\ stateHandler = "stateWaitRecheck"
    /\ backend = "EEPROM"
    /\ effects = <<"lastCheck", "save", "callback">>
    /\ storage = data
    /\ data.lastCheck = TimeNow

\* C2: when the record holds a name after setup(), the first loop() runs
\* stateStart, which calls the registered name callback with that name and
\* enters stateWaitRecheck; no subscribe and no publish has been made up to
\* and including that tick
C2_StartWithName ==
    (ran = "stateStart" /\ hasName)
        => /\ stateHandler = "stateWaitRecheck"
           /\ nameCallback => (effects = <<"callback">> /\ cbName = getName)
           /\ nSubscribe = 0
           /\ nPublish = 0
           /\ ~registered

C2_Witness ==
    /\ ran = "stateStart"
    /\ hasName
    /\ nameCallback
    /\ effects = <<"callback">>
    /\ cbName = Text(3, 0)
    /\ stateHandler = "stateWaitRecheck"

\* C3: when EEPROM, retained memory or the file holds a valid record with a
\* name, the registered name callback has been called when setup() returns
C3_CallbackDuringSetup ==
    (ran = "setup" /\ backend # "NoStorage" /\ RecValid(loaded) /\ hasName /\ nameCallback)
        => \E i \in 1..Len(effects) : effects[i] = "callback"

\* a tick of stateWaitRecheck that evaluates: 10000 ms have passed
Evaluates == LoopRuns("stateWaitRecheck") /\ Elapsed >= RECHECK_WAIT_MS

\* C4: with check period 0 and no check requested, the first evaluation of
\* stateWaitRecheck clears the state handler; while there is none every
\* loop() changes nothing and makes no call, and only checkName() installs a
\* handler again
C4_IdleAfterFetch ==
    [][ /\ (Evaluates /\ checkPeriod = 0 /\ ~forceCheck) => stateHandler' = NULL
        /\ LoopRuns(NULL)
            => (effects' = <<>> /\ UNCHANGED <<data, storage, engineVars, cloudVars>>)
        /\ (setupDone /\ stateHandler = NULL /\ stateHandler' # NULL) => checkName ]_vars

C4_Witness ==
    /\ ran = "loopIdle"
    /\ stateHandler = NULL
    /\ checkPeriod = 0
    /\ nPublish = 1
    /\ hasName
    /\ data.lastCheck > TimeBase

\* C5 as stated: at an evaluation with a check period D # 0, the clock valid
\* and no check requested, now >= lastCheck + D leads to stateSubscribe and
\* now < lastCheck + D stays in stateWaitRecheck
C5_RecheckFromBoundary ==
    [][ (Evaluates /\ checkPeriod # 0 /\ timeValid /\ ~forceCheck)
            => IF TimeNow >= data.lastCheck + checkPeriod
               THEN stateHandler' = "stateSubscribe"
               ELSE stateHandler' = "stateWaitRecheck" ]_vars

\* C5 amended: at such an evaluation now > lastCheck + D leads to
\* stateSubscribe, and now <= lastCheck + D (the boundary included) stays in
\* stateWaitRecheck; a tick before 10000 ms of dwell does not evaluate
C5_RecheckAfterBoundary ==
    [][ /\ (Evaluates /\ checkPeriod # 0 /\ timeValid /\ ~forceCheck)
            => IF TimeNow > data.lastCheck + checkPeriod
               THEN stateHandler' = "stateSubscribe"
               ELSE stateHandler' = "stateWaitRecheck"
        /\ (LoopRuns("stateWaitRecheck") /\ Elapsed < RECHECK_WAIT_MS)
            => UNCHANGED <<stateHandler, stateTime>> ]_vars

\* an evaluation at now = lastCheck + D has just been made
C5_Witness ==
    /\ ran = "stateWaitRecheck"
    /\ stateHandler = "stateWaitRecheck"
    /\ stateTime = millis
    /\ uptime > 0
    /\ checkPeriod # 0
    /\ timeValid
    /\ ~forceCheck
    /\ TimeNow = data.lastCheck + checkPeriod

\* C6: checkName() with no state handler installs stateSubscribe and changes
\* nothing else, and the next loop() runs stateSubscribe; checkName() with a
\* state handler only sets forceCheck; the flag stays set through every
\* handler but stateWaitRecheck, whose next evaluation clears it and goes to
\* stateSubscribe, whatever the check period
C6_ForceCheck ==
    [][ /\ (checkName /\ stateHandler = NULL)
            => /\ stateHandler' = "stateSubscribe"
               /\ UNCHANGED <<data, storage, stateTime, hasSubscribed, gotResponse,
                              forceCheck, cloudVars>>
        /\ (checkName /\ stateHandler # NULL)
            => /\ forceCheck'
               /\ UNCHANGED <<data, storage, stateHandler, stateTime, hasSubscribed,
                              gotResponse, cloudVars>>
        /\ LoopRuns("stateSubscribe")
            => (ran' = "stateSubscribe" /\ stateHandler' = "stateWaitConnected")
        /\ (forceCheck /\ ~Evaluates) => forceCheck'
        /\ (forceCheck /\ Evaluates)
            => (stateHandler' = "stateSubscribe" /\ ~forceCheck') ]_vars

\* a check requested during a cycle with check period 0 has sent
\* stateWaitRecheck back to stateSubscribe
C6_Witness ==
    /\ ran = "stateWaitRecheck"
    /\ stateHandler = "stateSubscribe"
    /\ checkPeriod = 0
    /\ ~forceCheck
    /\ nPublish = 1

\* the first n characters of s, or all of s when it is shorter
Prefix(s, n) == SubSeq(s, 1, IF Len(s) < n THEN Len(s) ELSE n)

\* C7: after subscriptionHandler has run on a payload, the name is the
\* first min(len, 31) characters of the payload followed by a terminator: a
\* longer payload is cut to exactly 31 characters, a payload of up to 31
\* characters is stored whole; and gotResponse is set
C7_Truncation ==
    ran = "subscriptionHandler"
        => /\ gotResponse
           /\ Terminated(data.name)
           /\ getName = Prefix(evData, DEVICENAMEHELPER_MAX_NAME_LEN)
           /\ Len(evData) > DEVICENAMEHELPER_MAX_NAME_LEN
                => Len(getName) = DEVICENAMEHELPER_MAX_NAME_LEN
           /\ Len(evData) <= DEVICENAMEHELPER_MAX_NAME_LEN => getName = evData

\* a payload longer than the buffer has been stored over a name without a
\* terminator
C7_Witness ==
    /\ ran = "subscriptionHandler"
    /\ Len(evData) > DEVICENAMEHELPER_MAX_NAME_LEN
    /\ ~Terminated(loaded.name)
    /\ Len(getName) = DEVICENAMEHELPER_MAX_NAME_LEN

\* C8: setup() on a record whose magic or size does not match leaves the
\* record with the magic, the size, flags 0, reserved 0, lastCheck 0 and an
\* empty name, whatever it held; validating the result again changes nothing
C8_Normalize ==
    ran = "setup"
        => /\ (loaded.magic # DATA_MAGIC \/ loaded.size # SizeofData)
                => data = Rec(DATA_MAGIC, SizeofData, 0, 0, 0, ZeroName)
           /\ ValidateData(data) = data

\* a record of a stale size with every other field in use has been reset
C8_Witness ==
    /\ ran = "setup"
    /\ loaded.magic = DATA_MAGIC
    /\ loaded.size = SizeofData - 4
    /\ loaded.flags # 0
    /\ loaded.reserved # 0
    /\ loaded.lastCheck # 0
    /\ ~Terminated(loaded.name)
    /\ data = Rec(DATA_MAGIC, SizeofData, 0, 0, 0, ZeroName)

\* C9: setup() leaves a record whose magic and size match as it was loaded,
\* and from then on magic, size, flags and reserved keep their loaded
\* values, in the record and in what save() writes to the medium
C9_FrameFields ==
    (setupDone /\ RecValid(loaded))
        => /\ ran = "setup" => data = loaded
           /\ data.magic = loaded.magic
           /\ data.size = loaded.size
           /\ data.flags = loaded.flags
           /\ data.reserved = loaded.reserved
           /\ backend # "NoStorage"
                => /\ storage.magic = loaded.magic
                   /\ storage.size = loaded.size
                   /\ storage.flags = loaded.flags
                   /\ storage.reserved = loaded.reserved

\* a record with the reserved fields in use has been through a fetch and
\* written back to EEPROM
C9_Witness ==
    /\ backend = "EEPROM"
    /\ RecValid(loaded)
    /\ loaded.flags = 5
    /\ loaded.reserved = 7
    /\ ran = "stateWaitResponse"
    /\ Len(effects) >= 2
    /\ effects[2] = "save"
    /\ storage = data
    /\ storage.lastCheck # loaded.lastCheck
    /\ storage.name # loaded.name

\* C10: after setup() the name buffer always holds a terminated string of
\* at most 31 characters
C10_NameTerminated ==
    setupDone
        => /\ Terminated(data.name)
           /\ Len(getName) <= DEVICENAMEHELPER_MAX_NAME_LEN

\* milliseconds of real time since the current state was entered (the
\* runs of Spec are shorter than the period of millis())
SinceEntry == uptime - stateTime * Quantum

\* C11: a tick of stateWaitConnected that finds the cloud disconnected or
\* the clock not valid stays in stateWaitConnected; stateWaitRequest is
\* entered only by a tick of stateWaitConnected that finds both; a publish
\* is made only by stateWaitRequest 2000 ms or more after that tick; and
\* stateWaitRequest is left only by the tick that publishes, once
C11_PublishAfterConnect ==
    [][ /\ (LoopRuns("stateWaitConnected") /\ (~connected \/ ~timeValid))
            => (stateHandler' = "stateWaitConnected" /\ nPublish' = nPublish)
        /\ (stateHandler # "stateWaitRequest" /\ stateHandler' = "stateWaitRequest")
            => (LoopRuns("stateWaitConnected") /\ connected /\ timeValid
                    /\ stateTime' = millis)
        /\ nPublish' # nPublish
            => /\ LoopRuns("stateWaitRequest")
               /\ SinceEntry >= POST_CONNECT_WAIT_MS
               /\ nPublish' = nPublish + 1
               /\ stateHandler' = "stateWaitResponse"
        /\ (LoopRuns("stateWaitRequest") /\ SinceEntry >= POST_CONNECT_WAIT_MS)
            => nPublish' = nPublish + 1
        /\ (stateHandler = "stateWaitRequest" /\ stateHandler' = "stateWaitRequest")
            => UNCHANGED <<nPublish, stateTime>> ]_vars

\* the first request has been published from an empty record
C11_Witness ==
    /\ ran = "stateWaitRequest"
    /\ effects = <<"publish">>
    /\ nPublish = 1
    /\ ~RecValid(loaded)
    /\ ~hasName
    /\ stateHandler = "stateWaitResponse"
    /\ uptime >= POST_CONNECT_WAIT_MS

\* a tick of stateWaitResponse that directly follows the event
AfterEvent == LoopRuns("stateWaitResponse") /\ ran = "subscriptionHandler"

\* C12: when an event with a payload that is not empty arrives in
\* stateWaitResponse, the next tick leaves getName() equal to the payload cut
\* to 31 characters, hasName() true, lastCheck = Time.now() and the state
\* stateWaitRecheck; EEPROM then holds the record, and so does the file when
\* it could be written (otherwise it holds what it held)
C12_FetchEndToEnd ==
    [][ (AfterEvent /\ evData # <<>>)
            => /\ getName' = Prefix(evData, DEVICENAMEHELPER_MAX_NAME_LEN)
               /\ hasName'
               /\ data'.lastCheck = TimeNow
               /\ stateHandler' = "stateWaitRecheck"
               /\ backend = "EEPROM" => storage' = data'
               /\ backend = "File" => (storage' = data' \/ storage' = storage) ]_vars

\* started on a zeroed file, the name cut to 31 characters has been
\* fetched and written to the file
C12_Witness ==
    /\ backend = "File"
    /\ loaded = ZeroRec
    /\ ran = "stateWaitResponse"
    /\ stateHandler = "stateWaitRecheck"
    /\ nPublish = 1
    /\ getName = Prefix(Text(DEVICENAMEHELPER_MAX_NAME_LEN + MaxOverLen, 3),
                        DEVICENAMEHELPER_MAX_NAME_LEN)
    /\ data.lastCheck = TimeNow
    /\ storage = data

\* C13: when an event with an empty payload arrives in stateWaitResponse,
\* the next tick enters stateWaitRetry and makes no call: no callback, no
\* save(), and the record and the medium are as they were
C13_EmptyResponse ==
    [][ (AfterEvent /\ evData = <<>>)
            => /\ stateHandler' = "stateWaitRetry"
               /\ stateTime' = millis
               /\ effects' = <<>>
               /\ cbName' = <<>>
               /\ data' = data
               /\ storage' = storage ]_vars

\* an empty response has replaced a stored name and led to stateWaitRetry
C13_Witness ==
    /\ ran = "stateWaitResponse"
    /\ stateHandler = "stateWaitRetry"
    /\ gotResponse
    /\ ~hasName
    /\ RecValid(loaded)
    /\ loaded.name[1] # 0
    /\ effects = <<>>

\* how often the call c occurs in the calls of an operation
Count(calls, c) == Cardinality({i \in 1..Len(calls) : calls[i] = c})

\* a tick that completes a fetch, and a first tick with a name in the record
FetchTick == LoopRuns("stateWaitResponse") /\ stateHandler' = "stateWaitRecheck"
StartTick == LoopRuns("stateStart") /\ hasName

\* C14: with a name callback registered, a tick that completes a fetch and
\* the tick of stateStart with a name in the record each call it exactly
\* once, with a name that is not empty; no other tick and no other operation
\* calls it; without one registered no call is made
C14_CallbackOnce ==
    [][ /\ (nameCallback /\ (FetchTick \/ StartTick))
            => /\ Count(effects', "callback") = 1
               /\ cbName' = getName'
               /\ Len(cbName') >= 1
        /\ (loop /\ ~(nameCallback /\ (FetchTick \/ StartTick)))
            => (Count(effects', "callback") = 0 /\ cbName' = <<>>)
        /\ (Setup \/ checkName \/ subscriptionRemoved
                \/ \E p \in Payloads : subscriptionHandler(p))
            => (Count(effects', "callback") = 0 /\ cbName' = <<>>) ]_vars

\* the callback has been called for the second fetch of a run
C14_Witness ==
    /\ ran = "stateWaitResponse"
    /\ stateHandler = "stateWaitRecheck"
    /\ nPublish = 2
    /\ Count(effects, "callback") = 1
    /\ cbName = getName
    /\ Len(cbName) >= 1

\* C15: Particle.subscribe is called only by stateSubscribe and only with
\* hasSubscribed false, which the call sets; stateSubscribe entered with the
\* flag set does not subscribe; and only subscriptionRemoved() clears the
\* flag, so that between two calls of subscribe there is a call of
\* subscriptionRemoved()
C15_SubscribeOnce ==
    [][ /\ nSubscribe' # nSubscribe
            => /\ LoopRuns("stateSubscribe")
               /\ ~hasSubscribed
               /\ hasSubscribed'
               /\ nSubscribe' = nSubscribe + 1
        /\ (LoopRuns("stateSubscribe") /\ hasSubscribed)
            => (nSubscribe' = nSubscribe /\ hasSubscribed')
        /\ (hasSubscribed /\ ~hasSubscribed') => subscriptionRemoved
        /\ hasSubscribed => nSubscribe >= 1 ]_vars

\* a second subscribe has been made, after a subscriptionRemoved()
C15_Witness ==
    /\ ran = "stateSubscribe"
    /\ effects = <<"subscribe">>
    /\ nSubscribe = 2
    /\ nPublish >= 1
    /\ hasSubscribed

\* C16: no name request is published while hasSubscribed is false
C16_PublishSubscribed ==
    [][ nPublish' # nPublish => hasSubscribed ]_vars

\* C17: when save() of the file class fails in the tick that completes a
\* fetch, that tick still sets lastCheck, calls the callback with the name
\* and enters stateWaitRecheck, and the file holds what it held; the file
\* changes only in a tick that completes a fetch, and then holds the record
C17_SaveFailure ==
    [][ /\ (FetchTick /\ backend = "File" /\ storage' # data')
            => /\ storage' = storage
               /\ data'.lastCheck = TimeNow
               /\ data'.name = data.name
               /\ effects' = <<"lastCheck", "save">> \o CallbackEffects
               /\ nameCallback => cbName' = getName
               /\ stateHandler' = "stateWaitRecheck"
        /\ (backend = "File" /\ storage' # storage)
            => (FetchTick /\ storage' = data') ]_vars

\* a fetch has completed with the file left as setup() found it
C17_Witness ==
    /\ backend = "File"
    /\ ran = "stateWaitResponse"
    /\ stateHandler = "stateWaitRecheck"
    /\ effects = <<"lastCheck", "save", "callback">>
    /\ cbName = getName
    /\ data.lastCheck = TimeNow
    /\ storage # data
    /\ storage.name # data.name

\* the record commonSetup leaves when the validation fails
EmptyRec == Rec(DATA_MAGIC, SizeofData, 0, 0, 0, ZeroName)

\* setup() of the file class read the whole record
FullRead == effects = <<"open", "read", "close">>

\* C18: after setup() of the file class in which the file could not be
\* opened or the read did not return the whole record, the record is the
\* empty record and the state is stateStart
C18_FileLoadFailure ==
    (ran = "setup" /\ backend = "File" /\ ~FullRead)
        => (data = EmptyRec /\ stateHandler = "stateStart")

\* setup() loaded the record from the medium
Loaded == backend = "EEPROM" \/ (backend = "File" /\ FullRead)

\* C19: for EEPROM and the file, a reset leaves the medium as it is, only a
\* tick that completes a fetch writes it, and it then holds the record; a
\* setup() that reads a valid record from it yields that record, and the
\* first tick then calls the callback with its name, keeps its lastCheck and
\* enters stateWaitRecheck with no subscribe and no publish made
C19_RoundTrip ==
    [][ /\ Restart => storage' = storage
        /\ (backend \in {"EEPROM", "File"} /\ storage' # storage)
            => (FetchTick /\ storage' = data')
        /\ (Setup /\ Loaded' /\ RecValid(storage)) => data' = storage
        /\ (LoopRuns("stateStart") /\ ran = "setup" /\ Loaded /\ RecValid(storage)
                /\ storage.name[1] # 0)
            => /\ effects' = <<"callback">>
               /\ cbName' = CStr(storage.name)
               /\ data' = storage
               /\ stateHandler' = "stateWaitRecheck"
               /\ nSubscribe' = 0
               /\ nPublish' = 0 ]_vars

\* after a reset the first tick has called the callback with the name
\* fetched before it
C19_Witness ==
    /\ backend = "EEPROM"
    /\ ran = "stateStart"
    /\ effects = <<"callback">>
    /\ cbName = Text(4, 2)
    /\ loaded = storage
    /\ data = storage
    /\ data.lastCheck >= TimeBase
    /\ stateHandler = "stateWaitRecheck"
    /\ nSubscribe = 0
    /\ nPublish = 0

\* C20: after every setup() of DeviceNameHelperNoStorage the record has no
\* name and lastCheck 0
C20_VolatileFresh ==
    (ran = "setup" /\ backend = "NoStorage")
        => (~hasName /\ data.lastCheck = 0)

\* C21: the object X::instance() returns is an object of class X
C21_InstanceClass ==
    \A X \in Backends : ran = InstanceOp(X) => backend = X

\* milliseconds of real time since the current state was entered, from the
\* time the run has taken: BootMillis is what millis() was when it began,
\* EntryUptime how far into the run stateTime was sampled
BootMillis == (millis - uptime \div Quantum) % CounterMod
EntryUptime == ((stateTime - BootMillis) % CounterMod) * Quantum
RealSinceEntry == uptime - EntryUptime

\* a tick of stateWaitResponse that finds the attempt failed
FailTick ==
    /\ LoopRuns("stateWaitResponse")
    /\ \/ (~gotResponse /\ RealSinceEntry >= RESPONSE_WAIT_MS)
       \/ (gotResponse /\ ~hasName)

\* C22: a tick of stateWaitResponse that finds no response after 15000 ms,
\* or a response with an empty name, enters stateWaitRetry and samples the
\* time; stateWaitRetry is left only by its own tick, after RETRY_WAIT_MS or
\* more, and only for stateWaitConnected; nothing is published in
\* stateWaitRetry, and a publish is made only 2000 ms or more into
\* stateWaitRequest; so while no fetch has succeeded a second publish comes
\* no earlier than RETRY_WAIT_MS + 2000 ms after the first
C22_RetryBackoff ==
    [][ /\ FailTick => (stateHandler' = "stateWaitRetry" /\ stateTime' = millis)
        /\ (LoopRuns("stateWaitResponse") /\ ~gotResponse
                /\ RealSinceEntry < RESPONSE_WAIT_MS)
            => stateHandler' = "stateWaitResponse"
        /\ (stateHandler = "stateWaitRetry" /\ stateHandler' # "stateWaitRetry")
            => /\ LoopRuns("stateWaitRetry")
               /\ RealSinceEntry >= RETRY_WAIT_MS
               /\ stateHandler' = "stateWaitConnected"
        /\ stateHandler = "stateWaitRetry" => nPublish' = nPublish
        /\ nPublish' # nPublish
            => (LoopRuns("stateWaitRequest") /\ RealSinceEntry >= POST_CONNECT_WAIT_MS)
        /\ (nPublish' >= 2 /\ data.lastCheck = 0)
            => uptime >= RETRY_WAIT_MS + 2 * POST_CONNECT_WAIT_MS ]_vars

\* the second request has been published after a failed attempt
C22_Witness ==
    /\ ran = "stateWaitRequest"
    /\ effects = <<"publish">>
    /\ nPublish = 2
    /\ nSubscribe = 1
    /\ data.lastCheck = 0
    /\ uptime >= RETRY_WAIT_MS + 2 * POST_CONNECT_WAIT_MS

\* the states that wait
Timed == {"stateWaitRequest", "stateWaitResponse", "stateWaitRetry", "stateWaitRecheck"}

\* C30: in every tick of a state that waits, millis() - stateTime is the
\* real time since the state was entered, also when the counter has wrapped
\* in between; each wait ends in the tick that finds its length reached and
\* in no tick before: 2000 ms to the publish, 15000 ms without a response to
\* stateWaitRetry, RETRY_WAIT_MS to stateWaitConnected, 10000 ms to the
\* evaluation of stateWaitRecheck
C30_WaitsAcrossWrap ==
    [][ /\ (loop /\ stateHandler \in Timed) => Elapsed = RealSinceEntry
        /\ LoopRuns("stateWaitRequest")
            => (stateHandler' = "stateWaitResponse"
                    <=> RealSinceEntry >= POST_CONNECT_WAIT_MS)
        /\ (LoopRuns("stateWaitResponse") /\ ~gotResponse)
            => (stateHandler' = "stateWaitRetry" <=> RealSinceEntry >= RESPONSE_WAIT_MS)
        /\ LoopRuns("stateWaitRetry")
            => (stateHandler' = "stateWaitConnected" <=> RealSinceEntry >= RETRY_WAIT_MS)
        /\ LoopRuns("stateWaitRecheck")
            => IF RealSinceEntry >= RECHECK_WAIT_MS
               THEN stateTime' = millis
               ELSE UNCHANGED <<stateHandler, stateTime>> ]_vars

\* the retry wait has ended after the counter wrapped during it
C30_Witness ==
    /\ ran = "stateWaitRetry"
    /\ stateHandler = "stateWaitConnected"
    /\ millis < stateTime
    /\ RealSinceEntry = RETRY_WAIT_MS


\* a step in which the subscription handler runs
EventStep == \E p \in Payloads : subscriptionHandler(p)

\* the states in which no fetch is under way
Settled == {"stateWaitRecheck", NULL}

\* C23 as stated: lastCheck is written only by the tick that completes a
\* fetch, to a time that is not 0; every other step after setup() leaves
\* lastCheck and the medium as they were
C23_LastCheckOnly ==
    [][ /\ FetchTick => (data'.lastCheck = TimeNow /\ data'.lastCheck # 0)
        /\ ~(Setup \/ FetchTick)
            => (data'.lastCheck = data.lastCheck /\ storage' = storage) ]_vars

\* C23: lastCheck is written only by the tick that completes a fetch, to
\* Time.now(), which is not 0, and by the validation of setup(), which
\* keeps it for a valid record and sets it to 0 otherwise; every other step
\* leaves lastCheck as it was, and leaves the medium as it was for the
\* EEPROM, file and no-storage classes; retained memory is the record, so an
\* event changes the name in it, and never lastCheck
C23_LastCheckFrame ==
    [][ /\ FetchTick => (data'.lastCheck = TimeNow /\ data'.lastCheck # 0)
        /\ Setup => data'.lastCheck = (IF RecValid(loaded') THEN loaded'.lastCheck ELSE 0)
        /\ ~(Setup \/ FetchTick)
            => /\ data'.lastCheck = data.lastCheck
               /\ backend # "Retained" => storage' = storage
               /\ backend = "Retained"
                    => /\ storage' = data'
                       /\ storage'.lastCheck = storage.lastCheck
                       /\ storage'.name # storage.name => EventStep ]_vars

\* an event has written a name into retained memory that no fetch has
\* completed for
C23_Witness ==
    /\ backend = "Retained"
    /\ ran = "subscriptionHandler"
    /\ ~RecValid(loaded)
    /\ evData # <<>>
    /\ CStr(storage.name) = evData
    /\ storage.lastCheck = 0
    /\ stateHandler = "stateWaitResponse"
    /\ nPublish = 1

\* C24 as stated: started with no valid record, hasName() is false and
\* getName() is empty as long as no fetch has completed
C24_EmptyUntilFetch ==
    (setupDone /\ ~RecValid(loaded) /\ data.lastCheck = 0)
        => (~hasName /\ getName = <<>>)

\* C24: hasName() becomes true only by an event with a payload that is not
\* empty; the handler stores the payload in whatever state the engine is,
\* so that getName() returns it at once; a tick that fails (time out, empty
\* response) and the ticks of stateWaitRetry call nothing and leave the
\* record as it is
C24_FailuresSilent ==
    [][ /\ (~hasName /\ hasName' /\ setupDone)
            => (EventStep /\ evData' # <<>>)
        /\ EventStep
            => /\ getName' = Prefix(evData', DEVICENAMEHELPER_MAX_NAME_LEN)
               /\ hasName' = (evData' # <<>>)
        /\ (loop /\ (stateHandler' = "stateWaitRetry" \/ stateHandler = "stateWaitRetry"))
            => (data' = data /\ effects' = <<>> /\ cbName' = <<>>) ]_vars

\* a name has arrived during stateWaitRetry, before any fetch has completed
C24_Witness ==
    /\ stateHandler = "stateWaitRetry"
    /\ ran = "subscriptionHandler"
    /\ ~RecValid(loaded)
    /\ data.lastCheck = 0
    /\ hasName
    /\ getName = evData

\* C25 as stated: in stateWaitRecheck and with no state handler the name
\* does not change; a tick that enters stateWaitRecheck passes the name in
\* the record to the callback, and after a fetch the EEPROM holds it
C25_NameSettled ==
    [][ /\ (setupDone /\ stateHandler \in Settled) => data'.name = data.name
        /\ (nameCallback /\ (FetchTick \/ StartTick)) => cbName' = getName'
        /\ (FetchTick /\ backend = "EEPROM") => storage'.name = data'.name ]_vars

\* C25: in stateWaitRecheck and with no state handler the name is changed
\* only by the subscription handler, which stores the payload without a
\* callback and without save(), so that the EEPROM and the file keep the
\* name they held; the ticks and the other operations leave the name as it
\* is; a tick that enters stateWaitRecheck passes the name in the record to
\* the callback, and after a fetch the EEPROM holds it
C25_NameChangedByEvent ==
    [][ /\ (setupDone /\ stateHandler \in Settled /\ data'.name # data.name)
            => EventStep
        /\ (stateHandler \in Settled /\ EventStep)
            => /\ getName' = Prefix(evData', DEVICENAMEHELPER_MAX_NAME_LEN)
               /\ effects' = <<>>
               /\ cbName' = <<>>
               /\ stateHandler' = stateHandler
               /\ backend \in {"EEPROM", "File"} => storage' = storage
        /\ (nameCallback /\ (FetchTick \/ StartTick)) => cbName' = getName'
        /\ (FetchTick /\ backend = "EEPROM") => storage'.name = data'.name ]_vars

\* after a fetch an event has changed the name in memory during
\* stateWaitRecheck; the EEPROM holds the fetched name
C25_Witness ==
    /\ backend = "EEPROM"
    /\ stateHandler = "stateWaitRecheck"
    /\ ran = "subscriptionHandler"
    /\ nPublish = 1
    /\ data.lastCheck # 0
    /\ storage.lastCheck = data.lastCheck
    /\ storage.name # data.name
    /\ hasName

\* C26: once hasName() is true it is true in every later state
C26_NameKept ==
    [][ (setupDone /\ hasName) => hasName' ]_vars

\* C27: a publish clears gotResponse, and only the subscription handler
\* sets it, so that a tick of stateWaitResponse completes a fetch only after
\* an event that followed the publish; a name stored before the publish
\* does not complete it; only the handler writes the name, so that the name
\* passed to the callback is the payload, as stored, of the latest event
C27_Correlation ==
    [][ /\ nPublish' # nPublish => ~gotResponse'
        /\ (~gotResponse /\ gotResponse') => EventStep
        /\ FetchTick => (gotResponse /\ hasName)
        /\ (LoopRuns("stateWaitResponse") /\ ~gotResponse)
            => /\ stateHandler' \in {"stateWaitResponse", "stateWaitRetry"}
               /\ effects' = <<>>
               /\ cbName' = <<>>
               /\ data' = data
        /\ (setupDone /\ data'.name # data.name) => EventStep
        /\ (AfterEvent /\ FetchTick /\ nameCallback)
            => cbName' = Prefix(evData, DEVICENAMEHELPER_MAX_NAME_LEN) ]_vars

\* a name stored by an event before the publish is in the record and the
\* tick of stateWaitResponse has not taken it
C27_Witness ==
    /\ ran = "stateWaitResponse"
    /\ stateHandler = "stateWaitResponse"
    /\ ~RecValid(loaded)
    /\ nPublish = 1
    /\ ~gotResponse
    /\ hasName
    /\ data.lastCheck = 0

\* the names a whole event leaves in the record
WholeNames == {Prefix(p, DEVICENAMEHELPER_MAX_NAME_LEN) : p \in Payloads} \ {<<>>}

\* C28: with the handler in another context, a call of stateWaitResponse
\* that sees gotResponse works on one name a whole event has written: the
\* name it tests, the name save() writes and the name it passes to the
\* callback are the same payload, cut to 31 characters, of one event, never
\* an empty or half written name
C28_NameWhole ==
    /\ tick \in {"lastCheck", "save", "callback"} => CStr(tested) \in WholeNames
    /\ (ran = "stateWaitResponse" /\ tick = "none" /\ stateHandler = "stateWaitRecheck")
        => /\ cbName \in WholeNames
           /\ cbName = CStr(tested)
           /\ backend = "EEPROM" => CStr(storage.name) = cbName

\* C29: when loop() is called for ever, the cloud stays connected, the clock
\* is valid and every request is answered with a name, every state with a
\* state handler and no name leads to stateWaitRecheck with hasName() true
\* and the callback called with the name, whatever calls of checkName() and
\* subscriptionRemoved() there were
C29_Progress ==
    (setupDone /\ stateHandler # NULL /\ ~hasName)
        ~> (/\ stateHandler = "stateWaitRecheck"
            /\ hasName
            /\ ran = "stateWaitResponse"
            /\ nameCallback => cbName = getName)
=============================================================================
